---- MODULE Spec2Model ----
(***************************************************************************)
(* Model of hf_bids_nifti.validation: the ValidationCheck and              *)
(* ValidationResult dataclasses, the required-files check, the NIfTI       *)
(* integrity spot-check and the validate_generic_bids orchestrator, run    *)
(* against a small BIDS directory whose content the environment changes    *)
(* between calls.                                                          *)
(*                                                                         *)
(* Python strings are TLA+ strings (\o concatenates, ToString renders an   *)
(* int as str() does).  An Optional value is a sequence of length <= 1:    *)
(* None is <<>> and a present value v is <<v>>.                            *)
(***************************************************************************)
EXTENDS Integers, Sequences, FiniteSets, TLC

VARIABLES
    root_exists,    \* bids_root.exists()
    present,        \* names of the top-level files that exist under the root
    nifti,          \* state of each image file under the root
    results,        \* the live ValidationResult objects
    seen,           \* the caller's last reading of an all_passed property
    call            \* the most recent call: arguments, outcome, filesystem log

vars == <<root_exists, present, nifti, results, seen, call>>

(***************************************************************************)
(* Bounds of the model.                                                    *)
(***************************************************************************)
MaxFiles == 3       \* image files that may exist under the root
MaxSample == 4      \* largest sample_size requested
MaxNeg == 1         \* most negative sample_size requested is -MaxNeg
MaxResults == 2     \* live ValidationResult objects
MaxChecks == 3      \* checks appended by add_check calls, over all results
MaxCount == 3       \* largest count and count bound given to validate_count
MaxHeld == 2        \* checks held by results whose checks are assigned to

(***************************************************************************)
(* Inputs.                                                                 *)
(***************************************************************************)
BidsRoot == "/data/ds000001"
Roots == {BidsRoot, "/tmp/nonexistent"}

None == <<>>
Some(v) == <<v>>

TopNames == {"dataset_description.json", "participants.tsv", "README"}

RequiredFilesInputs ==
    { None,
      Some(<<>>),
      Some(<<"dataset_description.json", "nonexistent.json">>),
      Some(<<"README", "participants.tsv", "dataset_description.json">>) }

Patterns == {"**/*_T1w.nii.gz", "**/*.nii.gz", "**/*_nonexistent.nii.gz"}

SampleSizes == (0 - MaxNeg)..MaxSample

NiftiIds == 1..MaxFiles

\* Image files are named as the test fixture names them; odd ids are T1w
\* images, even ids are bold images.
NiftiSuffix(f) == IF f % 2 = 1 THEN "_T1w.nii.gz" ELSE "_bold.nii.gz"

NiftiPath(f) ==
    "sub-00" \o ToString(f) \o "/anat/sub-00" \o ToString(f) \o NiftiSuffix(f)

(***************************************************************************)
(* Python built-ins used by the module.                                    *)
(***************************************************************************)
\* Min, a first argument of 0 standing for no limit
MinOrAll(a, b) == IF a = 0 THEN b ELSE IF a <= b THEN a ELSE b

Min(a, b) == IF a <= b THEN a ELSE b

RECURSIVE Join(_, _)
\* sep.join(items)
Join(sep, items) ==
    IF items = <<>> THEN ""
    ELSE IF Len(items) = 1 THEN items[1]
    ELSE items[1] \o sep \o Join(sep, Tail(items))

RECURSIVE QuoteAll(_)
QuoteAll(items) ==
    IF items = <<>> THEN <<>>
    ELSE <<"'" \o items[1] \o "'">> \o QuoteAll(Tail(items))

\* f"{items}" of a list of str
ReprList(items) == "[" \o Join(", ", QuoteAll(items)) \o "]"

EndsWith(s, tail) ==
    /\ Len(tail) <= Len(s)
    /\ SubSeq(s, Len(s) - Len(tail) + 1, Len(s)) = tail

(***************************************************************************)
(* ValidationCheck and ValidationResult.                                   *)
(***************************************************************************)
ValidationCheck(name, passed, expected, actual, details) ==
    [name |-> name, passed |-> passed, expected |-> expected,
     actual |-> actual, details |-> details]

ValidationResult(bids_root) == [bids_root |-> bids_root, checks |-> <<>>]

\* add_check, inserting at the front
add_check_prepend(result, check) ==
    [result EXCEPT !.checks = <<check>> \o @]

add_check(result, check) ==
    [result EXCEPT !.checks = Append(@, check)]

(***************************************************************************)
(* Filesystem reads.  Each returns the value read and the log entry.       *)
(***************************************************************************)
LogExists(path) == [op |-> "exists", path |-> path]
LogGlob(pattern) == [op |-> "glob", path |-> pattern]
LogOpen(f) == [op |-> "open", path |-> NiftiPath(f)]

\* bids_root.exists(): BidsRoot is the only root that may exist
Exists(bids_root) == bids_root = BidsRoot /\ root_exists

\* (bids_root / name).exists()
FileExists(bids_root, name) == Exists(bids_root) /\ name \in present

RECURSIVE GlobFrom(_, _)
\* the matching files from id f on, in directory order
GlobFrom(tail, f) ==
    IF f > MaxFiles THEN <<>>
    ELSE (IF nifti[f] # "absent" /\ EndsWith(NiftiPath(f), tail)
          THEN <<f>> ELSE <<>>) \o GlobFrom(tail, f + 1)

\* list(bids_root.glob(pattern)), the patterns being "**/*" and a name tail
Glob(bids_root, pattern) ==
    IF Exists(bids_root)
    THEN GlobFrom(SubSeq(pattern, 5, Len(pattern)), 1)
    ELSE <<>>

\* str(e) of the exception nib.load(f) raises on an unreadable file
LoadError(f) == "Cannot work out file type of \"" \o NiftiPath(f) \o "\""

(***************************************************************************)
(* The outcome of a call: the exception raised ("none" if it returned),    *)
(* the value returned, the filesystem operations it made, in order, and    *)
(* the sample it drew.                                                     *)
(***************************************************************************)
Returned(ret, log, sample) ==
    [raised |-> "none", ret |-> ret, log |-> log, sample |-> sample]

Raised(exc, log, sample) ==
    [raised |-> exc, ret |-> None, log |-> log, sample |-> sample]

(***************************************************************************)
(* validate_bids_required_files                                            *)
(***************************************************************************)
\* DefaultRequired, a third name required by default
DefaultRequiredWithReadme ==
    <<"dataset_description.json", "participants.tsv", "README">>

DefaultRequired == <<"dataset_description.json", "participants.tsv">>

RECURSIVE MissingFirstOnly(_, _)
\* Missing, giving up at the first missing name
MissingFirstOnly(bids_root, names) ==
    IF names = <<>> THEN <<>>
    ELSE IF FileExists(bids_root, names[1])
    THEN MissingFirstOnly(bids_root, Tail(names))
    ELSE <<names[1]>>

RECURSIVE Missing(_, _)
\* [f for f in required_files if not (bids_root / f).exists()]
Missing(bids_root, names) ==
    IF names = <<>> THEN <<>>
    ELSE (IF FileExists(bids_root, names[1]) THEN <<>> ELSE <<names[1]>>)
         \o Missing(bids_root, Tail(names))

validate_bids_required_files(bids_root, required_files) ==
    LET required == IF required_files = None THEN DefaultRequired
                    ELSE required_files[1]
        missing == Missing(bids_root, required)
        log == [i \in 1..Len(required) |->
                    LogExists(bids_root \o "/" \o required[i])]
    IN  IF missing # <<>>
        THEN Returned(ValidationCheck("bids_required_files", FALSE,
                                      "all present",
                                      "missing: " \o Join(", ", missing),
                                      Some("Required: " \o ReprList(required))),
                      log, <<>>)
        ELSE Returned(ValidationCheck("bids_required_files", TRUE,
                                      "all present", "all present", None),
                      log, <<>>)

(***************************************************************************)
(* spot_check_nifti_files                                                  *)
(***************************************************************************)
\* The draws of the random source: k distinct positions of a list of n.
InjSeqs(n, k) ==
    {s \in [1..k -> 1..n] : \A i, j \in 1..k : i # j => s[i] # s[j]}

\* random_sample, a negative k drawing nothing
random_sample_clamped(population, k, rnd) ==
    IF k > Len(population)
    THEN [raised |-> "ValueError", sample |-> <<>>]
    ELSE [raised |-> "none",
          sample |-> [i \in 1..k |-> population[rnd[i]]]]

\* random.sample(population, k), rnd being the positions drawn
random_sample(population, k, rnd) ==
    IF k < 0 \/ k > Len(population)
    THEN [raised |-> "ValueError", sample |-> <<>>]
    ELSE [raised |-> "none", sample |-> [i \in 1..k |-> population[rnd[i]]]]

RECURSIVE LoadEachContinue(_, _)
\* LoadEach, going on after a failure and keeping the last error
LoadEachContinue(sample, i) ==
    IF i > Len(sample) THEN [error |-> None, opened |-> <<>>]
    ELSE LET rest == LoadEachContinue(sample, i + 1)
         IN  [error |-> IF rest.error # None THEN rest.error
                        ELSE IF nifti[sample[i]] # "ok"
                        THEN Some(LoadError(sample[i])) ELSE None,
              opened |-> <<sample[i]>> \o rest.opened]

\* LoadEach, only the first file of the sample being loaded
LoadEachFirstOnly(sample, i) ==
    IF i > Len(sample) THEN [error |-> None, opened |-> <<>>]
    ELSE [error |-> IF nifti[sample[i]] # "ok"
                    THEN Some(LoadError(sample[i])) ELSE None,
          opened |-> <<sample[i]>>]

RECURSIVE LoadEach(_, _)
\* for f in sample: _ = nib.load(f).header, from position i on
LoadEach(sample, i) ==
    IF i > Len(sample) THEN [error |-> None, opened |-> <<>>]
    ELSE IF nifti[sample[i]] # "ok"
    THEN [error |-> Some(LoadError(sample[i])), opened |-> <<sample[i]>>]
    ELSE LET rest == LoadEach(sample, i + 1)
         IN  [error |-> rest.error, opened |-> <<sample[i]>> \o rest.opened]

Ratio(k) == ToString(k) \o "/" \o ToString(k)

\* NoFilesCheck, an empty match list sampled like any other
NoFilesCheckAsLoaded(pattern) ==
    ValidationCheck("nifti_integrity", TRUE, "0/0 loadable", "0/0 passed",
                    Some("Checked 0 of 0 files"))

\* the Check returned when the pattern matches nothing
NoFilesCheck(pattern) ==
    ValidationCheck("nifti_integrity", FALSE, "loadable NIfTI files",
                    "no files found", Some("Pattern: " \o pattern))

\* LoadErrorCheck, the exception swallowed
LoadErrorCheckSwallowed(actual_sample_size, e, pattern) ==
    ValidationCheck("nifti_integrity", TRUE,
                    Ratio(actual_sample_size) \o " loadable",
                    Ratio(actual_sample_size) \o " passed",
                    Some("Pattern: " \o pattern))

\* the Check returned by the except clause, e being the exception caught
LoadErrorCheck(actual_sample_size, e, pattern) ==
    ValidationCheck("nifti_integrity", FALSE,
                    Ratio(actual_sample_size) \o " loadable",
                    "ERROR: " \o e, Some("Pattern: " \o pattern))

\* the Check returned when every sampled header loaded
LoadedCheck(actual_sample_size, total) ==
    ValidationCheck("nifti_integrity", TRUE,
                    Ratio(actual_sample_size) \o " loadable",
                    Ratio(actual_sample_size) \o " passed",
                    Some("Checked " \o ToString(actual_sample_size)
                         \o " of " \o ToString(total) \o " files"))

spot_check_nifti_files(bids_root, pattern, sample_size, rnd) ==
    LET nifti_files == Glob(bids_root, pattern)
        drawn == random_sample(nifti_files,
                               Min(sample_size, Len(nifti_files)), rnd)
        sample == drawn.sample
        actual_sample_size == Len(sample)
        loaded == LoadEach(sample, 1)
        log == <<LogGlob(pattern)>>
               \o [i \in 1..Len(loaded.opened) |-> LogOpen(loaded.opened[i])]
    IN  IF nifti_files = <<>>
        THEN Returned(NoFilesCheck(pattern), <<LogGlob(pattern)>>, <<>>)
        ELSE IF drawn.raised # "none"
        THEN Raised(drawn.raised, <<LogGlob(pattern)>>, <<>>)
        ELSE IF loaded.error # None
        THEN Returned(LoadErrorCheck(actual_sample_size, loaded.error[1],
                                     pattern),
                      log, sample)
        ELSE Returned(LoadedCheck(actual_sample_size, Len(nifti_files)),
                      log, sample)

(***************************************************************************)
(* validate_generic_bids                                                   *)
(***************************************************************************)
\* the Check of the root-missing path
RootMissingCheck(bids_root) ==
    ValidationCheck("bids_root_exists", FALSE, "directory exists", "not found",
                    Some(bids_root))

\* validate_generic_bids without the early return of the root-missing path
validate_generic_bids_no_return(bids_root, nifti_pattern, nifti_sample_size, rnd) ==
    LET required == validate_bids_required_files(bids_root, None)
        spot == spot_check_nifti_files(bids_root, nifti_pattern,
                                       nifti_sample_size, rnd)
        log == <<LogExists(bids_root)>> \o required.log \o spot.log
        first == IF ~Exists(bids_root)
                 THEN add_check(ValidationResult(bids_root),
                                RootMissingCheck(bids_root))
                 ELSE ValidationResult(bids_root)
    IN  IF spot.raised # "none"
        THEN Raised(spot.raised, log, spot.sample)
        ELSE Returned(add_check(add_check(first, required.ret), spot.ret),
                      log, spot.sample)

\* validate_generic_bids, a sample size of 0 also emptying the required list
validate_generic_bids_size_required(bids_root, nifti_pattern, nifti_sample_size, rnd) ==
    LET required == validate_bids_required_files(bids_root,
                        IF nifti_sample_size = 0 THEN Some(<<>>) ELSE None)
        spot == spot_check_nifti_files(bids_root, nifti_pattern,
                                       nifti_sample_size, rnd)
        log == <<LogExists(bids_root)>> \o required.log \o spot.log
    IN  IF ~Exists(bids_root)
        THEN Returned(add_check(ValidationResult(bids_root),
                                RootMissingCheck(bids_root)),
                      <<LogExists(bids_root)>>, <<>>)
        ELSE IF spot.raised # "none"
        THEN Raised(spot.raised, log, spot.sample)
        ELSE Returned(add_check(add_check(ValidationResult(bids_root),
                                          required.ret),
                                spot.ret),
                      log, spot.sample)

validate_generic_bids(bids_root, nifti_pattern, nifti_sample_size, rnd) ==
    LET required == validate_bids_required_files(bids_root, None)
        spot == spot_check_nifti_files(bids_root, nifti_pattern,
                                       nifti_sample_size, rnd)
        log == <<LogExists(bids_root)>> \o required.log \o spot.log
    IN  IF ~Exists(bids_root)
        THEN Returned(add_check(ValidationResult(bids_root),
                                RootMissingCheck(bids_root)),
                      <<LogExists(bids_root)>>, <<>>)
        ELSE IF spot.raised # "none"
        THEN Raised(spot.raised, log, spot.sample)
        ELSE Returned(add_check(add_check(ValidationResult(bids_root),
                                          required.ret),
                                spot.ret),
                      log, spot.sample)

(***************************************************************************)
(* ValidationResult properties.                                            *)
(***************************************************************************)
\* AllFrom, returning from inside the loop at its first element
AllFromFirstOnly(checks, i) ==
    IF i > Len(checks) THEN TRUE ELSE checks[i].passed

RECURSIVE AllFrom(_, _)
\* all(check.passed for check in checks), from position i on
AllFrom(checks, i) ==
    IF i > Len(checks) THEN TRUE
    ELSE IF ~checks[i].passed THEN FALSE
    ELSE AllFrom(checks, i + 1)

all_passed(result) == AllFrom(result.checks, 1)

RECURSIVE FailedFromReversed(_, _)
\* FailedFrom, inserting at the front instead of appending
FailedFromReversed(checks, i) ==
    IF i > Len(checks) THEN <<>>
    ELSE FailedFromReversed(checks, i + 1)
         \o (IF ~checks[i].passed THEN <<checks[i]>> ELSE <<>>)

RECURSIVE FailedFrom(_, _)
\* [check for check in checks if not check.passed], from position i on
FailedFrom(checks, i) ==
    IF i > Len(checks) THEN <<>>
    ELSE (IF ~checks[i].passed THEN <<checks[i]>> ELSE <<>>)
         \o FailedFrom(checks, i + 1)

failed_checks(result) == FailedFrom(result.checks, 1)

\* Truthy, testing "is not None" instead
IsNotNone(details) == details # None

\* bool(details) of an Optional str: None and "" are both false
Truthy(details) == details # None /\ details[1] # ""

\* ValidationCheck.__str__
check_str(check) ==
    LET status == IF check.passed THEN "PASS" ELSE "FAIL"
        msg == "[" \o status \o "] " \o check.name \o ": expected="
               \o check.expected \o ", actual=" \o check.actual
    IN  IF Truthy(check.details)
        THEN msg \o " (" \o check.details[1] \o ")"
        ELSE msg

\* The glyphs U+2705 and U+274C, written in ASCII.
PassGlyph == "[U+2705]"
FailGlyph == "[U+274C]"

RuleWidth == 60

RECURSIVE Repeat(_, _)
\* s * n
Repeat(s, n) == IF n <= 0 THEN "" ELSE s \o Repeat(s, n - 1)

RECURSIVE Names(_)
\* [c.name for c in checks]
Names(checks) ==
    IF checks = <<>> THEN <<>> ELSE <<checks[1].name>> \o Names(Tail(checks))

RECURSIVE CheckLines(_, _)
\* the lines the loop over self.checks appends, from position i on
CheckLines(checks, i) ==
    IF i > Len(checks) THEN <<>>
    ELSE LET check == checks[i]
             status == IF check.passed THEN PassGlyph \o " PASS"
                       ELSE FailGlyph \o " FAIL"
         IN  <<status \o " " \o check.name,
               "       Expected: " \o check.expected,
               "       Actual:   " \o check.actual>>
             \o (IF Truthy(check.details)
                 THEN <<"       Details:  " \o check.details[1]>> ELSE <<>>)
             \o CheckLines(checks, i + 1)

\* BannerLines, counting and naming every check instead of the failed ones
BannerLinesOfAll(result) ==
    IF all_passed(result)
    THEN <<PassGlyph \o " All validations passed! Data is ready for HF push.">>
    ELSE <<FailGlyph \o " " \o ToString(Len(result.checks))
               \o " check(s) failed: " \o ReprList(Names(result.checks)),
           "   Check download completion or data integrity.">>

\* the lines after the closing rule
BannerLines(result) ==
    IF all_passed(result)
    THEN <<PassGlyph \o " All validations passed! Data is ready for HF push.">>
    ELSE LET failed_names == Names(failed_checks(result))
         IN  <<FailGlyph \o " " \o ToString(Len(failed_names))
                   \o " check(s) failed: " \o ReprList(failed_names),
               "   Check download completion or data integrity.">>

\* ValidationResult.summary
summary(result) ==
    LET lines == <<"Validation Results for: " \o result.bids_root,
                   Repeat("=", RuleWidth)>>
                 \o CheckLines(result.checks, 1)
                 \o <<Repeat("=", RuleWidth)>>
                 \o BannerLines(result)
    IN  Join("\n", lines)

(***************************************************************************)
(* State.                                                                  *)
(***************************************************************************)
Idle ==
    [op |-> "idle", args |-> <<>>, raised |-> "none", ret |-> None,
     log |-> <<>>, sample |-> <<>>]

Called(op, args, outcome) ==
    [op |-> op, args |-> args, raised |-> outcome.raised, ret |-> outcome.ret,
     log |-> outcome.log, sample |-> outcome.sample]

Init ==
    /\ root_exists = FALSE
    /\ present = {}
    /\ nifti = [f \in NiftiIds |-> "absent"]
    /\ results = <<>>
    /\ seen = None
    /\ call = Idle

(***************************************************************************)
(* The environment: the dataset directory is created, downloaded into,     *)
(* damaged and removed between calls (the test fixtures do the same).      *)
(***************************************************************************)
Mkdir ==
    /\ ~root_exists
    /\ root_exists' = TRUE
    /\ call' = Idle
    /\ UNCHANGED <<present, nifti, results, seen>>

Rmtree ==
    /\ root_exists
    /\ root_exists' = FALSE
    /\ present' = {}
    /\ nifti' = [f \in NiftiIds |-> "absent"]
    /\ call' = Idle
    /\ UNCHANGED <<results, seen>>

WriteText(name) ==
    /\ root_exists
    /\ name \notin present
    /\ present' = present \cup {name}
    /\ call' = Idle
    /\ UNCHANGED <<root_exists, nifti, results, seen>>

Unlink(name) ==
    /\ name \in present
    /\ present' = present \ {name}
    /\ call' = Idle
    /\ UNCHANGED <<root_exists, nifti, results, seen>>

NibSave(f) ==
    /\ root_exists
    /\ nifti[f] # "ok"
    /\ nifti' = [nifti EXCEPT ![f] = "ok"]
    /\ call' = Idle
    /\ UNCHANGED <<root_exists, present, results, seen>>

Truncate(f) ==
    /\ nifti[f] = "ok"
    /\ nifti' = [nifti EXCEPT ![f] = "corrupt"]
    /\ call' = Idle
    /\ UNCHANGED <<root_exists, present, results, seen>>

UnlinkNifti(f) ==
    /\ nifti[f] # "absent"
    /\ nifti' = [nifti EXCEPT ![f] = "absent"]
    /\ call' = Idle
    /\ UNCHANGED <<root_exists, present, results, seen>>

(***************************************************************************)
(* The calls.  A call starts from the idle caller; its outcome stays in     *)
(* call until the environment moves on.                                    *)
(***************************************************************************)
\* Draws, a position being free to be drawn again
DrawsWithReplacement(bids_root, pattern, sample_size) ==
    LET n == Len(Glob(bids_root, pattern))
        k == Min(sample_size, n)
    IN  IF k >= 1 THEN [1..k -> 1..n] ELSE {<<>>}

\* The draws random.sample can make for this call ({<<>>} if it draws none).
Draws(bids_root, pattern, sample_size) ==
    LET n == Len(Glob(bids_root, pattern))
        k == Min(sample_size, n)
    IN  IF k >= 1 THEN InjSeqs(n, k) ELSE {<<>>}

CallRequiredFiles(bids_root, required_files) ==
    /\ call = Idle
    /\ call' = Called("validate_bids_required_files",
                      [bids_root |-> bids_root, required_files |-> required_files],
                      validate_bids_required_files(bids_root, required_files))
    /\ UNCHANGED <<root_exists, present, nifti, results, seen>>

CallSpotCheck(bids_root, pattern, sample_size) ==
    /\ call = Idle
    /\ \E rnd \in Draws(bids_root, pattern, sample_size) :
        call' = Called("spot_check_nifti_files",
                          [bids_root |-> bids_root, pattern |-> pattern,
                           sample_size |-> sample_size],
                          spot_check_nifti_files(bids_root, pattern,
                                                 sample_size, rnd))
    /\ UNCHANGED <<root_exists, present, nifti, results, seen>>

CallValidateGenericBids(bids_root, pattern, sample_size) ==
    /\ call = Idle
    /\ \E rnd \in Draws(bids_root, pattern, sample_size) :
        call' = Called("validate_generic_bids",
                          [bids_root |-> bids_root, pattern |-> pattern,
                           sample_size |-> sample_size],
                          validate_generic_bids(bids_root, pattern,
                                                sample_size, rnd))
    /\ UNCHANGED <<root_exists, present, nifti, results, seen>>

\* the validate command of the CLI: what it echoes and its exit status
cli_validate(bids_root, nifti_pattern, sample_size, rnd) ==
    LET outcome == validate_generic_bids(bids_root, nifti_pattern,
                                         sample_size, rnd)
    IN  IF outcome.raised # "none"
        THEN [raised |-> outcome.raised,
              ret |-> [result |-> None, stdout |-> <<>>, exit_code |-> 1],
              log |-> outcome.log, sample |-> outcome.sample]
        ELSE Returned([result |-> Some(outcome.ret),
                       stdout |-> <<summary(outcome.ret)>>,
                       exit_code |-> IF ~all_passed(outcome.ret) THEN 1 ELSE 0],
                      outcome.log, outcome.sample)

CallCliValidate(bids_root, pattern, sample_size) ==
    /\ call = Idle
    /\ \E rnd \in Draws(bids_root, pattern, sample_size) :
        call' = Called("validate",
                          [bids_root |-> bids_root, pattern |-> pattern,
                           sample_size |-> sample_size],
                          cli_validate(bids_root, pattern, sample_size, rnd))
    /\ UNCHANGED <<root_exists, present, nifti, results, seen>>

Next ==
    \/ \E bids_root \in Roots, pattern \in Patterns, sample_size \in SampleSizes :
           CallCliValidate(bids_root, pattern, sample_size)
    \/ Mkdir
    \/ Rmtree
    \/ \E name \in TopNames : WriteText(name)
    \/ \E name \in TopNames : Unlink(name)
    \/ \E f \in NiftiIds : NibSave(f)
    \/ \E f \in NiftiIds : Truncate(f)
    \/ \E f \in NiftiIds : UnlinkNifti(f)
    \/ \E bids_root \in Roots, required_files \in RequiredFilesInputs :
           CallRequiredFiles(bids_root, required_files)
    \/ \E bids_root \in Roots, pattern \in Patterns, sample_size \in SampleSizes :
           CallSpotCheck(bids_root, pattern, sample_size)
    \/ \E bids_root \in Roots, pattern \in Patterns, sample_size \in SampleSizes :
           CallValidateGenericBids(bids_root, pattern, sample_size)

Spec == Init /\ [][Next]_vars

(***************************************************************************)
(* The aggregator alone: ValidationResult objects are constructed, checks  *)
(* are appended to them and their properties are read.                     *)
(***************************************************************************)
\* ValidationCheck objects a caller appends (those of the test suite)
CheckInputs ==
    { ValidationCheck("a", TRUE, "1", "1", None),
      ValidationCheck("b", FALSE, "2", "0", None),
      ValidationCheck("c", FALSE, "3", "0", Some("Missing 50 items")) }

RECURSIVE TotalChecks(_)
TotalChecks(rs) ==
    IF rs = <<>> THEN 0 ELSE Len(rs[1].checks) + TotalChecks(Tail(rs))

NewResult(bids_root) ==
    /\ Len(results) < MaxResults
    /\ results' = Append(results, ValidationResult(bids_root))
    /\ call' = Called("ValidationResult", [bids_root |-> bids_root],
                      Returned(Len(results) + 1, <<>>, <<>>))
    /\ UNCHANGED <<root_exists, present, nifti, seen>>

\* AddCheck, every result holding one and the same checks list
AddCheckShared(r, check) ==
    /\ r \in 1..Len(results)
    /\ TotalChecks(results) < MaxChecks
    /\ results' = [o \in DOMAIN results |-> add_check(results[o], check)]
    /\ call' = Called("add_check", [r |-> r, check |-> check],
                      Returned(None, <<>>, <<>>))
    /\ UNCHANGED <<root_exists, present, nifti, seen>>

AddCheck(r, check) ==
    /\ r \in 1..Len(results)
    /\ TotalChecks(results) < MaxChecks
    /\ results' = [results EXCEPT ![r] = add_check(@, check)]
    /\ call' = Called("add_check", [r |-> r, check |-> check],
                      Returned(None, <<>>, <<>>))
    /\ UNCHANGED <<root_exists, present, nifti, seen>>

\* earlier is what the caller's previous reading of this result returned
ReadAllPassed(r) ==
    /\ r \in 1..Len(results)
    /\ call' = Called("all_passed",
                      [r |-> r,
                       earlier |-> IF seen # None /\ seen[1].r = r
                                   THEN Some(seen[1].value) ELSE None],
                      Returned(all_passed(results[r]), <<>>, <<>>))
    /\ seen' = Some([r |-> r, value |-> all_passed(results[r])])
    /\ UNCHANGED <<root_exists, present, nifti, results>>

\* ReadFailedChecks, filtering the result's own list in place
ReadFailedChecksInPlace(r) ==
    /\ r \in 1..Len(results)
    /\ call' = Called("failed_checks", [r |-> r],
                      Returned(failed_checks(results[r]), <<>>, <<>>))
    /\ results' = [results EXCEPT
                      ![r].checks = failed_checks(results[r])]
    /\ UNCHANGED <<root_exists, present, nifti, seen>>

ReadFailedChecks(r) ==
    /\ r \in 1..Len(results)
    /\ call' = Called("failed_checks", [r |-> r],
                      Returned(failed_checks(results[r]), <<>>, <<>>))
    /\ UNCHANGED <<root_exists, present, nifti, results, seen>>

ReadSummary(r) ==
    /\ r \in 1..Len(results)
    /\ call' = Called("summary", [r |-> r],
                      Returned(summary(results[r]), <<>>, <<>>))
    /\ UNCHANGED <<root_exists, present, nifti, results, seen>>

NextResult ==
    \/ NewResult(BidsRoot)
    \/ \E r \in 1..MaxResults : ReadSummary(r)
    \/ \E r \in 1..MaxResults, check \in CheckInputs : AddCheck(r, check)
    \/ \E r \in 1..MaxResults : ReadAllPassed(r)
    \/ \E r \in 1..MaxResults : ReadFailedChecks(r)

SpecResult == Init /\ [][NextResult]_vars

(***************************************************************************)
(* Results of validate_generic_bids invocations and of constructions, side *)
(* by side, checks being appended to any of them.                          *)
(***************************************************************************)
\* result = validate_generic_bids(...), the caller keeping the Result
Invoke(bids_root, pattern, sample_size) ==
    /\ Len(results) < MaxResults
    /\ \E rnd \in Draws(bids_root, pattern, sample_size) :
         LET outcome == validate_generic_bids(bids_root, pattern,
                                              sample_size, rnd)
         IN  /\ outcome.raised = "none"
             /\ TotalChecks(results) + Len(outcome.ret.checks) <= MaxChecks
             /\ results' = Append(results, outcome.ret)
             /\ call' = Called("validate_generic_bids",
                               [bids_root |-> bids_root, pattern |-> pattern,
                                sample_size |-> sample_size],
                               outcome)
    /\ UNCHANGED <<root_exists, present, nifti, seen>>

NextFresh ==
    \/ Mkdir
    \/ NewResult(BidsRoot)
    \/ \E pattern \in Patterns, sample_size \in SampleSizes :
           Invoke(BidsRoot, pattern, sample_size)
    \/ \E r \in 1..MaxResults, check \in CheckInputs : AddCheck(r, check)

SpecFresh == Init /\ [][NextFresh]_vars

(***************************************************************************)
(* Attribute assignment: ValidationCheck is a plain dataclass, and a       *)
(* caller that holds the check at position i of a result may assign to its *)
(* fields.                                                                 *)
(***************************************************************************)
CheckFields == {"name", "passed", "expected", "actual", "details"}

\* values a caller assigns to a field
AttrValues(attr) ==
    IF attr = "passed" THEN BOOLEAN
    ELSE IF attr = "details" THEN {None, Some("edited")}
    ELSE {"edited"}

\* setattr(check, attr, value), the dataclass not being frozen
setattr(check, attr, value) == [check EXCEPT ![attr] = value]

\* each check is assigned to once, as constructed
SetAttr(r, i, attr, value) ==
    /\ r \in 1..Len(results)
    /\ i \in 1..Len(results[r].checks)
    /\ results[r].checks[i] \in CheckInputs
    /\ results' = [results EXCEPT
                      ![r].checks[i] = setattr(@, attr, value)]
    /\ call' = Called("__setattr__",
                      [r |-> r, i |-> i, attr |-> attr, value |-> value],
                      Returned(None, <<>>, <<>>))
    /\ UNCHANGED <<root_exists, present, nifti, seen>>

NextAssign ==
    \/ NewResult(BidsRoot)
    \/ \E r \in 1..MaxResults, check \in CheckInputs :
           /\ TotalChecks(results) < MaxHeld
           /\ AddCheck(r, check)
    \/ \E r \in 1..MaxResults, i \in 1..MaxHeld, attr \in CheckFields :
           \E value \in AttrValues(attr) : SetAttr(r, i, attr, value)

SpecAssign == Init /\ [][NextAssign]_vars

(***************************************************************************)
(* validate_count                                                          *)
(***************************************************************************)
\* validate_count, a maximum of 0 taken for an omitted one
validate_count_falsy_max(name, actual, expected_min, expected_max) ==
    LET no_max == expected_max = None \/ expected_max = Some(0)
        expected_str ==
            IF no_max THEN ">= " \o ToString(expected_min)
            ELSE ToString(expected_min) \o "-" \o ToString(expected_max[1])
        passed ==
            IF no_max THEN actual >= expected_min
            ELSE expected_min <= actual /\ actual <= expected_max[1]
    IN  ValidationCheck(name, passed, expected_str, ToString(actual),
                        IF ~passed
                        THEN Some("Expected " \o expected_str \o ", got "
                                  \o ToString(actual))
                        ELSE None)

validate_count(name, actual, expected_min, expected_max) ==
    LET expected_str ==
            IF expected_max = None THEN ">= " \o ToString(expected_min)
            ELSE ToString(expected_min) \o "-" \o ToString(expected_max[1])
        passed ==
            IF expected_max = None THEN actual >= expected_min
            ELSE expected_min <= actual /\ actual <= expected_max[1]
    IN  ValidationCheck(name, passed, expected_str, ToString(actual),
                        IF ~passed
                        THEN Some("Expected " \o expected_str \o ", got "
                                  \o ToString(actual))
                        ELSE None)

(***************************************************************************)
(* The functions that read no state, each called once on inputs drawn      *)
(* from small sets.                                                        *)
(***************************************************************************)
CountNames == {"subjects", "t1w_files"}
Counts == (0 - MaxNeg)..MaxCount
MaxInputs == {None} \cup {Some(n) : n \in Counts}

CallValidateCount(name, actual, expected_min, expected_max) ==
    /\ call = Idle
    /\ call' = Called("validate_count",
                      [name |-> name, actual |-> actual,
                       expected_min |-> expected_min,
                       expected_max |-> expected_max],
                      Returned(validate_count(name, actual, expected_min,
                                              expected_max),
                               <<>>, <<>>))
    /\ UNCHANGED <<root_exists, present, nifti, results, seen>>

(***************************************************************************)
(* core.py: a file table is a data frame, given by its column labels in    *)
(* order; a features schema is given by its keys in insertion order.       *)
(***************************************************************************)
MaxColumns == 4

DatasetBuilderConfig(bids_root, hf_repo_id, split, dry_run) ==
    [bids_root |-> bids_root, hf_repo_id |-> hf_repo_id, split |-> split,
     dry_run |-> dry_run]

ConfigInputs ==
    { DatasetBuilderConfig("/tmp/fake-bids", hf_repo_id, None, dry_run) :
        hf_repo_id \in {"test-user/test-dataset", "user/dataset"},
        dry_run \in BOOLEAN }

ColumnNames == {"subject_id", "t1w", "age", "extra_column"}

\* lists of distinct column labels
ColumnLists ==
    UNION { {s \in [1..n -> ColumnNames] :
                \A i, j \in 1..n : i # j => s[i] # s[j]} : n \in 0..MaxColumns }

FileTables == {[columns |-> columns] : columns \in ColumnLists}

FeaturesInputs == ColumnLists \ {<<>>}

\* the feature type the schemas give a column
FeatureType(name) ==
    IF name \in {"t1w", "lesion"} THEN "Nifti"
    ELSE IF name \in {"age", "wab_aq"} THEN "float32"
    ELSE IF name = "days_post_stroke" THEN "int32"
    ELSE "string"

\* the type Dataset.from_pandas infers for a column
InferredType(name) == IF name = "age" THEN "float64" ELSE "string"

\* set(keys)
KeySet(keys) == {keys[i] : i \in DOMAIN keys}

\* an outcome of a core function: the dataset it made, if any, and the
\* caller's file_table as the call leaves it
CoreOutcome(exc, ds, file_table, log) ==
    [raised |-> exc, ret |-> [ds |-> ds, file_table |-> file_table],
     log |-> log, sample |-> <<>>]

\* MissingColumns, the difference taken the other way round
MissingColumnsReversed(file_table, features) ==
    KeySet(file_table.columns) \ KeySet(features)

\* expected_columns - actual_columns
MissingColumns(file_table, features) ==
    KeySet(features) \ KeySet(file_table.columns)

validate_file_table_columns(file_table, features) ==
    IF MissingColumns(file_table, features) # {}
    THEN CoreOutcome("ValueError", None, file_table, <<>>)
    ELSE CoreOutcome("none", None, file_table, <<>>)

\* SelectColumns, keeping every column of the table
SelectAllColumns(file_table, columns_to_use) ==
    [columns |-> file_table.columns]

\* file_table[columns_to_use].copy(): a new frame
SelectColumns(file_table, columns_to_use) ==
    [columns |-> columns_to_use]

\* Dataset.from_pandas(df, preserve_index=False)
from_pandas(df) ==
    [column_names |-> df.columns,
     features |-> [i \in DOMAIN df.columns |->
                      <<df.columns[i], InferredType(df.columns[i])>>]]

\* ds.cast(features)
cast(ds, features) ==
    [column_names |-> ds.column_names,
     features |-> [i \in DOMAIN features |->
                      <<features[i], FeatureType(features[i])>>]]

build_hf_dataset(config, file_table, features) ==
    LET validated == validate_file_table_columns(file_table, features)
    IN  IF validated.raised # "none"
        THEN CoreOutcome(validated.raised, None, validated.ret.file_table,
                         <<"validate_file_table_columns">>)
        ELSE LET columns_to_use == features
                 file_table_subset == SelectColumns(validated.ret.file_table,
                                                    columns_to_use)
                 ds == cast(from_pandas(file_table_subset), features)
             IN  CoreOutcome("none", Some(ds), validated.ret.file_table,
                             <<"validate_file_table_columns", "from_pandas",
                               "cast">>)

\* keyword arguments a caller passes on to push_to_hub
PushKwargsInputs ==
    UNION { [names -> BOOLEAN] :
              names \in SUBSET {"embed_external_files", "private"} }

\* the default of the receiver's embed_external_files parameter
HubEmbedDefault == TRUE

\* ds.push_to_hub(repo_id, **kwargs): the arguments as the receiver binds
\* them
push_to_hub(repo_id, kwargs) ==
    [repo_id |-> repo_id,
     embed_external_files |->
         IF "embed_external_files" \in DOMAIN kwargs
         THEN kwargs["embed_external_files"] ELSE HubEmbedDefault,
     kwargs |-> [k \in DOMAIN kwargs \ {"embed_external_files"} |-> kwargs[k]]]

\* the log holds the push_to_hub calls made
push_dataset_to_hub(ds, config, push_kwargs) ==
    Returned(None, <<push_to_hub(config.hf_repo_id, push_kwargs)>>, <<>>)

\* Dataset.from_dict({"id": ["a", "b"]})
IdDataset == from_pandas([columns |-> <<"id">>])

(***************************************************************************)
(* arc.py, soop.py and their CLI commands                                  *)
(***************************************************************************)
get_arc_features ==
    <<"subject_id", "t1w", "lesion", "age", "sex", "wab_aq">>

get_soop_features ==
    <<"subject_id", "session_id", "t1w", "lesion", "days_post_stroke", "age",
      "sex">>

\* build_arc_file_table, returning a table of the schema's columns
build_arc_file_table_implemented(bids_root) ==
    Returned([columns |-> get_arc_features], <<>>, <<>>)

build_arc_file_table(bids_root) == Raised("NotImplementedError", <<>>, <<>>)

build_soop_file_table(bids_root) == Raised("NotImplementedError", <<>>, <<>>)

\* an outcome of a pipeline: the dataset built, if any, the push_to_hub
\* calls made, and the steps entered
PipelineOutcome(exc, ds, pushed, log) ==
    [raised |-> exc, ret |-> [ds |-> ds, pushed |-> pushed], log |-> log,
     sample |-> <<>>]

\* the body the two pipelines share, tabled being the outcome of the
\* file-table builder called builder
build_and_push(config, builder, tabled, features) ==
    IF tabled.raised # "none"
    THEN PipelineOutcome(tabled.raised, None, <<>>, <<builder>>)
    ELSE LET built == build_hf_dataset(config, tabled.ret, features)
         IN  IF built.raised # "none"
             THEN PipelineOutcome(built.raised, None, <<>>,
                                  <<builder, "build_hf_dataset">>)
             ELSE IF ~config.dry_run
             THEN PipelineOutcome("none", built.ret.ds,
                      push_dataset_to_hub(built.ret.ds[1], config, <<>>).log,
                      <<builder, "build_hf_dataset", "push_dataset_to_hub">>)
             ELSE PipelineOutcome("none", built.ret.ds, <<>>,
                                  <<builder, "build_hf_dataset">>)

build_and_push_arc(config) ==
    build_and_push(config, "build_arc_file_table",
                   build_arc_file_table(config.bids_root), get_arc_features)

build_and_push_soop(config) ==
    build_and_push(config, "build_soop_file_table",
                   build_soop_file_table(config.bids_root), get_soop_features)

\* str(bool)
StrBool(b) == IF b THEN "True" ELSE "False"

\* the body the arc and soop commands share: what is echoed, the exit
\* status, and the exception that ended the command, if any
cli_dataset(label, bids_root, hf_repo, dry_run, outcome) ==
    LET echoed == <<"Processing " \o label \o " dataset from: " \o bids_root,
                    "Target HF repo: " \o hf_repo,
                    "Dry run: " \o StrBool(dry_run)>>
    IN  IF outcome.raised # "none"
        THEN [raised |-> outcome.raised,
              ret |-> [stdout |-> echoed, exit_code |-> 1,
                       pushed |-> outcome.ret.pushed],
              log |-> outcome.log, sample |-> <<>>]
        ELSE Returned(
                 [stdout |-> echoed \o
                      <<IF dry_run
                        THEN "Dry run complete. Dataset built but not pushed."
                        ELSE "Dataset pushed to: https://huggingface.co/datasets/"
                             \o hf_repo>>,
                  exit_code |-> 0, pushed |-> outcome.ret.pushed],
                 outcome.log, <<>>)

cli_arc(bids_root, hf_repo, dry_run) ==
    cli_dataset("ARC", bids_root, hf_repo, dry_run,
        build_and_push_arc(DatasetBuilderConfig(bids_root, hf_repo, None,
                                                dry_run)))

cli_soop(bids_root, hf_repo, dry_run) ==
    cli_dataset("SOOP", bids_root, hf_repo, dry_run,
        build_and_push_soop(DatasetBuilderConfig(bids_root, hf_repo, None,
                                                 dry_run)))

CliRoots == {"/data/ds004884", "/tmp/pytest-0"}

CliRepos == {"test/test-repo", "myuser/arc-demo"}

CallBuildAndPushArc(config) ==
    /\ call = Idle
    /\ call' = Called("build_and_push_arc", [config |-> config],
                      build_and_push_arc(config))
    /\ UNCHANGED <<root_exists, present, nifti, results, seen>>

CallBuildAndPushSoop(config) ==
    /\ call = Idle
    /\ call' = Called("build_and_push_soop", [config |-> config],
                      build_and_push_soop(config))
    /\ UNCHANGED <<root_exists, present, nifti, results, seen>>

CallCliArc(bids_root, hf_repo, dry_run) ==
    /\ call = Idle
    /\ call' = Called("arc", [bids_root |-> bids_root, hf_repo |-> hf_repo,
                              dry_run |-> dry_run],
                      cli_arc(bids_root, hf_repo, dry_run))
    /\ UNCHANGED <<root_exists, present, nifti, results, seen>>

CallCliSoop(bids_root, hf_repo, dry_run) ==
    /\ call = Idle
    /\ call' = Called("soop", [bids_root |-> bids_root, hf_repo |-> hf_repo,
                               dry_run |-> dry_run],
                      cli_soop(bids_root, hf_repo, dry_run))
    /\ UNCHANGED <<root_exists, present, nifti, results, seen>>

CallValidateFileTableColumns(file_table, features) ==
    /\ call = Idle
    /\ call' = Called("validate_file_table_columns",
                      [file_table |-> file_table, features |-> features],
                      validate_file_table_columns(file_table, features))
    /\ UNCHANGED <<root_exists, present, nifti, results, seen>>

CallBuildHfDataset(config, file_table, features) ==
    /\ call = Idle
    /\ call' = Called("build_hf_dataset",
                      [config |-> config, file_table |-> file_table,
                       features |-> features],
                      build_hf_dataset(config, file_table, features))
    /\ UNCHANGED <<root_exists, present, nifti, results, seen>>

CallPushDatasetToHub(ds, config, push_kwargs) ==
    /\ call = Idle
    /\ call' = Called("push_dataset_to_hub",
                      [ds |-> ds, config |-> config,
                       push_kwargs |-> push_kwargs],
                      push_dataset_to_hub(ds, config, push_kwargs))
    /\ UNCHANGED <<root_exists, present, nifti, results, seen>>

\* ValidationCheck objects rendered with str()
StrInputs ==
    { ValidationCheck("test_check", passed, "100", actual, details) :
        passed \in BOOLEAN, actual \in {"100", "50"},
        details \in {None, Some(""), Some("Missing 50 items")} }

CallStr(check) ==
    /\ call = Idle
    /\ call' = Called("__str__", [check |-> check],
                      Returned(check_str(check), <<>>, <<>>))
    /\ UNCHANGED <<root_exists, present, nifti, results, seen>>

(***************************************************************************)
(* count_files, over a directory tree given by its entries                 *)
(***************************************************************************)
Entry(path, parent, is_dir) ==
    [path |-> path, parent |-> parent, is_dir |-> is_dir]

\* entries a tree under the root may hold; parent "" is the root itself
TreeEntries ==
    { Entry("sub-001", "", TRUE),
      Entry("sub-001/anat", "sub-001", TRUE),
      Entry("sub-001/anat/sub-001_T1w.nii.gz", "sub-001/anat", FALSE),
      Entry("sub-001/anat/sub-001_bold.nii.gz", "sub-001/anat", FALSE),
      Entry("sub-001/scratch_T1w.nii.gz", "sub-001", TRUE),
      Entry("sub-001/scratch_T1w.nii.gz/part_T1w.nii.gz",
            "sub-001/scratch_T1w.nii.gz", FALSE) }

\* the trees: every entry lies in a directory of the tree
Trees ==
    { tree \in SUBSET TreeEntries :
        \A e \in tree :
            e.parent = "" \/ \E d \in tree : d.is_dir /\ d.path = e.parent }

CountPatterns == {"*_T1w.nii.gz", "*.nii.gz", "*_nonexistent.nii.gz"}

\* bids_root.rglob(pattern), the pattern being "*" and a name tail: the
\* entries, files and directories alike, whose name ends with the tail
rglob(tree, pattern) ==
    {e \in tree : EndsWith(e.path, SubSeq(pattern, 2, Len(pattern)))}

count_files(tree, pattern) == Cardinality(rglob(tree, pattern))

CallCountFiles(tree, pattern) ==
    /\ call = Idle
    /\ call' = Called("count_files", [tree |-> tree, pattern |-> pattern],
                      Returned(count_files(tree, pattern), <<>>, <<>>))
    /\ UNCHANGED <<root_exists, present, nifti, results, seen>>

\* each disjunct is guarded before its inputs are drawn
NextCalls ==
    \/ \E tree \in Trees, pattern \in CountPatterns :
           CallCountFiles(tree, pattern)
    \/ /\ call = Idle
       /\ \E file_table \in FileTables, features \in FeaturesInputs :
              CallValidateFileTableColumns(file_table, features)
    \/ /\ call = Idle
       /\ \E config \in ConfigInputs, file_table \in FileTables,
             features \in FeaturesInputs :
              CallBuildHfDataset(config, file_table, features)
    \/ \E config \in ConfigInputs, push_kwargs \in PushKwargsInputs :
           CallPushDatasetToHub(IdDataset, config, push_kwargs)
    \/ \E config \in ConfigInputs : CallBuildAndPushArc(config)
    \/ \E config \in ConfigInputs : CallBuildAndPushSoop(config)
    \/ \E bids_root \in CliRoots, hf_repo \in CliRepos, dry_run \in BOOLEAN :
           CallCliArc(bids_root, hf_repo, dry_run)
    \/ \E bids_root \in CliRoots, hf_repo \in CliRepos, dry_run \in BOOLEAN :
           CallCliSoop(bids_root, hf_repo, dry_run)
    \/ \E check \in StrInputs : CallStr(check)
    \/ /\ call = Idle
       /\ \E name \in CountNames, actual \in Counts, expected_min \in Counts,
             expected_max \in MaxInputs :
              CallValidateCount(name, actual, expected_min, expected_max)

SpecCalls == Init /\ [][NextCalls]_vars

(***************************************************************************)
(* Properties.                                                             *)
(*                                                                         *)
(* The environment resets call, so while call holds an outcome the         *)
(* filesystem is the one the call ran against.                             *)
(***************************************************************************)
IsCall(op) == call.op = op

\* the files the call's pattern matches
Matched == Glob(call.args.bids_root, call.args.pattern)

Unreadable(sample) == {i \in DOMAIN sample : nifti[sample[i]] # "ok"}

\* the first position of the sample whose file does not load
FirstUnreadable(sample) ==
    CHOOSE i \in Unreadable(sample) : \A j \in Unreadable(sample) : i <= j

Opens(log) == SelectSeq(log, LAMBDA e : e.op = "open")

\* names separated by ", ", built from the left
Listing(names) ==
    LET upto[i \in 0..Len(names)] ==
            IF i = 0 THEN ""
            ELSE IF i = 1 THEN names[1]
            ELSE upto[i - 1] \o ", " \o names[i]
    IN  upto[Len(names)]

\* C1: validate_generic_bids never raises: whatever the root, the pattern
\* and the sample size (0 and negative ones included), it returns a
\* ValidationResult.
C1_NeverRaises ==
    IsCall("validate_generic_bids") =>
        /\ call.raised = "none"
        /\ call.ret.bids_root = call.args.bids_root

\* C2: whenever all_passed is read, it is true if and only if every element
\* of checks has passed = true (so it is true of an empty checks list), also
\* when checks were appended after an earlier reading.
C2_AllPassedIffEveryCheckPassed ==
    IsCall("all_passed") =>
        LET checks == results[call.args.r].checks
        IN  call.ret = (\A i \in DOMAIN checks : checks[i].passed)

\* a reading that returns false after an earlier reading of the same result
\* returned true
C2_ReadAgainAfterAppend ==
    /\ IsCall("all_passed")
    /\ call.args.earlier = Some(TRUE)
    /\ call.ret = FALSE

\* C3: failed_checks is exactly the checks whose passed is false, each once,
\* in their order in checks.
C3_FailedChecksExactInOrder ==
    IsCall("failed_checks") =>
        LET checks == results[call.args.r].checks
            failed == {i \in DOMAIN checks : ~checks[i].passed}
            nth(j) == CHOOSE i \in failed :
                          Cardinality({m \in failed : m < i}) = j - 1
        IN  /\ Len(call.ret) = Cardinality(failed)
            /\ \A j \in DOMAIN call.ret : call.ret[j] = checks[nth(j)]

\* two different failed checks returned from a list that also holds a passed one
C3_TwoFailedOnePassed ==
    /\ IsCall("failed_checks")
    /\ Len(results[call.args.r].checks) = 3
    /\ Len(call.ret) = 2
    /\ call.ret[1] # call.ret[2]

\* C4: on a root that does not exist validate_generic_bids returns a Result
\* with the single Check "bids_root_exists", failed, actual "not found",
\* details the path, and touches the filesystem only to test the root: no
\* required file is tested, nothing is globbed, no file is opened.
C4_RootMissingShortCircuit ==
    (IsCall("validate_generic_bids") /\ ~Exists(call.args.bids_root)) =>
        /\ call.raised = "none"
        /\ Len(call.ret.checks) = 1
        /\ call.ret.checks[1].name = "bids_root_exists"
        /\ call.ret.checks[1].passed = FALSE
        /\ call.ret.checks[1].actual = "not found"
        /\ call.ret.checks[1].details = Some(call.args.bids_root)
        /\ call.log = <<[op |-> "exists", path |-> call.args.bids_root]>>

C4_RootMissingCall ==
    /\ IsCall("validate_generic_bids")
    /\ ~Exists(call.args.bids_root)
    /\ call.args.bids_root = BidsRoot
    /\ call.args.sample_size > 0

\* C5: on a root that exists validate_generic_bids returns a Result with
\* exactly two Checks, "bids_required_files" then "nifti_integrity", the
\* second also when the first failed.
C5_TwoChecksInOrder ==
    (IsCall("validate_generic_bids") /\ Exists(call.args.bids_root)) =>
        /\ call.raised = "none"
        /\ Len(call.ret.checks) = 2
        /\ call.ret.checks[1].name = "bids_required_files"
        /\ call.ret.checks[2].name = "nifti_integrity"

\* C6: validate_bids_required_files returns one Check "bids_required_files"
\* that passed iff every required name exists under the root; its actual is
\* "all present" when none is missing and otherwise "missing: " followed by
\* all the missing names, in required-list order, joined with ", ".
C6_RequiredFilesCheck ==
    IsCall("validate_bids_required_files") =>
        LET required == IF call.args.required_files = None
                        THEN <<"dataset_description.json", "participants.tsv">>
                        ELSE call.args.required_files[1]
            there(name) == Exists(call.args.bids_root) /\ name \in present
            missing == SelectSeq(required, LAMBDA name : ~there(name))
        IN  /\ call.raised = "none"
            /\ call.ret.name = "bids_required_files"
            /\ call.ret.passed = (\A i \in DOMAIN required : there(required[i]))
            /\ call.ret.actual = IF missing = <<>> THEN "all present"
                                 ELSE "missing: " \o Listing(missing)

\* two of three required names missing, the second of them after a present one
C6_TwoOfThreeMissing ==
    /\ IsCall("validate_bids_required_files")
    /\ Exists(call.args.bids_root)
    /\ call.ret.actual = "missing: README, dataset_description.json"

\* C7: when the pattern matches no file spot_check_nifti_files returns a
\* failing "nifti_integrity" Check with actual "no files found", whatever
\* the sample size, and neither samples nor opens anything.
C7_NoFilesFound ==
    (/\ IsCall("spot_check_nifti_files")
     /\ Matched = <<>>) =>
        /\ call.raised = "none"
        /\ call.ret.name = "nifti_integrity"
        /\ call.ret.passed = FALSE
        /\ call.ret.actual = "no files found"
        /\ call.sample = <<>>
        /\ Opens(call.log) = <<>>

\* no match for the pattern in a directory that holds image files, and a
\* negative sample size
C7_NoMatchNegativeSample ==
    /\ IsCall("spot_check_nifti_files")
    /\ Exists(call.args.bids_root)
    /\ \E f \in NiftiIds : nifti[f] # "absent"
    /\ Matched = <<>>
    /\ call.args.sample_size < 0

\* C8: when the pattern matches total >= 1 files spot_check_nifti_files
\* samples exactly k = min(sample_size, total) of them, and if all k load
\* it opens the k and returns a passing Check with expected "k/k loadable",
\* actual "k/k passed" and details "Checked k of total files".
C8_SampleClamped ==
    (/\ IsCall("spot_check_nifti_files")
     /\ Len(Matched) >= 1) =>
        LET total == Len(Matched)
            k == IF call.args.sample_size <= total
                 THEN call.args.sample_size ELSE total
            kk == ToString(k) \o "/" \o ToString(k)
        IN  /\ call.raised = "none"
            /\ Len(call.sample) = k
            /\ Unreadable(call.sample) = {} =>
                   /\ Len(Opens(call.log)) = k
                   /\ call.ret.passed = TRUE
                   /\ call.ret.expected = kk \o " loadable"
                   /\ call.ret.actual = kk \o " passed"
                   /\ call.ret.details =
                          Some("Checked " \o ToString(k) \o " of "
                               \o ToString(total) \o " files")

\* C9: the first sampled file whose header does not load ends the scan:
\* the files opened are the sample up to and including that file, none
\* after it, and the one Check returned is a failing "nifti_integrity"
\* whose actual embeds the message of that first error.
C9_FirstFailureEndsScan ==
    (/\ IsCall("spot_check_nifti_files")
     /\ Unreadable(call.sample) # {}) =>
        LET first == FirstUnreadable(call.sample)
        IN  /\ call.raised = "none"
            /\ Opens(call.log) =
                   [i \in 1..first |->
                       [op |-> "open", path |-> NiftiPath(call.sample[i])]]
            /\ call.ret.name = "nifti_integrity"
            /\ call.ret.passed = FALSE
            /\ call.ret.actual = "ERROR: " \o LoadError(call.sample[first])

\* a sample of three whose second and third files are both unreadable
C9_FailureBeforeAnotherFailure ==
    /\ IsCall("spot_check_nifti_files")
    /\ Len(call.sample) = 3
    /\ Unreadable(call.sample) = {2, 3}
    /\ Len(Opens(call.log)) = 2

\* C10: if a file of the drawn sample does not load, validate_generic_bids
\* returns a Result whose all_passed is false and whose "nifti_integrity"
\* Check failed with actual "ERROR: " followed by the error's message,
\* whatever the required-files Check found.
C10_CorruptSampleFailsResult ==
    (/\ IsCall("validate_generic_bids")
     /\ Unreadable(call.sample) # {}) =>
        LET first == FirstUnreadable(call.sample)
            integrity == call.ret.checks[Len(call.ret.checks)]
        IN  /\ call.raised = "none"
            /\ \E i \in DOMAIN call.ret.checks : ~call.ret.checks[i].passed
            /\ all_passed(call.ret) = FALSE
            /\ integrity.name = "nifti_integrity"
            /\ integrity.passed = FALSE
            /\ integrity.actual = "ERROR: " \o LoadError(call.sample[first])

\* an unreadable file sampled in a directory that has both required files
C10_CorruptWithRequiredPresent ==
    /\ IsCall("validate_generic_bids")
    /\ Unreadable(call.sample) # {}
    /\ call.ret.checks[1].passed = TRUE

\* C11: on a root that exists, holds both default required files and at
\* least one file matching the pattern, all matching files being loadable,
\* validate_generic_bids returns a Result of at least 2 Checks whose
\* all_passed is true, for every sample size >= 1 and every draw.
C11_ValidDatasetPasses ==
    (/\ IsCall("validate_generic_bids")
     /\ Exists(call.args.bids_root)
     /\ {"dataset_description.json", "participants.tsv"} \subseteq present
     /\ Len(Matched) >= 1
     /\ \A i \in DOMAIN Matched : nifti[Matched[i]] = "ok"
     /\ call.args.sample_size >= 1) =>
        /\ call.raised = "none"
        /\ Len(call.ret.checks) >= 2
        /\ \A i \in DOMAIN call.ret.checks : call.ret.checks[i].passed
        /\ all_passed(call.ret) = TRUE

\* a valid dataset sampled in part, next to an unreadable file that the
\* pattern does not match
C11_ValidDatasetSampledInPart ==
    /\ IsCall("validate_generic_bids")
    /\ {"dataset_description.json", "participants.tsv"} \subseteq present
    /\ Len(Matched) = 2
    /\ \A i \in DOMAIN Matched : nifti[Matched[i]] = "ok"
    /\ \E f \in NiftiIds : nifti[f] = "corrupt"
    /\ call.args.sample_size = 1
    /\ call.raised = "none"

\* C12: validate_count without expected_max has expected ">= <min>" and
\* passed iff actual >= min; with expected_max (0 included) it has expected
\* "<min>-<max>" and passed iff min <= actual <= max; details is
\* "Expected <expected>, got <actual>" when it failed and None when it passed.
C12_ValidateCount ==
    IsCall("validate_count") =>
        LET a == call.args
            lo == ToString(a.expected_min)
            expected == IF a.expected_max = None THEN ">= " \o lo
                        ELSE lo \o "-" \o ToString(a.expected_max[1])
        IN  /\ call.raised = "none"
            /\ call.ret.expected = expected
            /\ a.expected_max = None =>
                   call.ret.passed = (a.actual >= a.expected_min)
            /\ a.expected_max # None =>
                   call.ret.passed = (/\ a.expected_min <= a.actual
                                      /\ a.actual <= a.expected_max[1])
            /\ ~call.ret.passed =>
                   call.ret.details = Some("Expected " \o expected \o ", got "
                                           \o ToString(a.actual))
            /\ call.ret.passed => call.ret.details = None

\* a count above a maximum of 0
C12_AboveMaxZero ==
    /\ IsCall("validate_count")
    /\ call.args.expected_max = Some(0)
    /\ call.args.expected_min = 0
    /\ call.args.actual = 1
    /\ call.ret.passed = FALSE
    /\ call.ret.details = Some("Expected 0-0, got 1")

\* C14 as claimed: str(check) is "[PASS] <name>: expected=<expected>,
\* actual=<actual>" ("[FAIL]" for a failed check), followed by
\* " (<details>)" if and only if details is present.
C14_StrSuffixIffPresent ==
    IsCall("__str__") =>
        LET check == call.args.check
            head == (IF check.passed THEN "[PASS] " ELSE "[FAIL] ") \o check.name
                    \o ": expected=" \o check.expected
                    \o ", actual=" \o check.actual
        IN  call.ret = IF check.details # None
                       THEN head \o " (" \o check.details[1] \o ")"
                       ELSE head

\* C14 as amended: the same, the suffix " (<details>)" following if and
\* only if details is a non-empty string; a check whose details is None or
\* the empty string renders without a suffix.
C14_StrSuffixIffNonEmpty ==
    IsCall("__str__") =>
        LET check == call.args.check
            head == (IF check.passed THEN "[PASS] " ELSE "[FAIL] ") \o check.name
                    \o ": expected=" \o check.expected
                    \o ", actual=" \o check.actual
        IN  call.ret = IF check.details \notin {None, Some("")}
                       THEN head \o " (" \o check.details[1] \o ")"
                       ELSE head

\* a failed check with empty details, rendered without a suffix
C14_EmptyDetailsRendered ==
    /\ IsCall("__str__")
    /\ call.args.check.details = Some("")
    /\ call.ret = "[FAIL] test_check: expected=100, actual=50"

\* the summary text the claim describes, built from the checks by position
ExpectedSummary(result) ==
    LET checks == result.checks
        rule == "============================================================"
        shown(d) == d \notin {None, Some("")}
        block(c) ==
            (IF c.passed THEN "[U+2705] PASS " ELSE "[U+274C] FAIL ") \o c.name
            \o "\n       Expected: " \o c.expected
            \o "\n       Actual:   " \o c.actual
            \o (IF shown(c.details) THEN "\n       Details:  " \o c.details[1]
                ELSE "")
        upto[i \in 0..Len(checks)] ==
            IF i = 0 THEN "Validation Results for: " \o result.bids_root
                          \o "\n" \o rule
            ELSE upto[i - 1] \o "\n" \o block(checks[i])
        failed == SelectSeq(checks, LAMBDA c : ~c.passed)
        names == [i \in DOMAIN failed |-> "'" \o failed[i].name \o "'"]
        banner ==
            IF \A i \in DOMAIN checks : checks[i].passed
            THEN "[U+2705] All validations passed! Data is ready for HF push."
            ELSE "[U+274C] " \o ToString(Len(failed)) \o " check(s) failed: ["
                 \o Listing(names) \o "]"
                 \o "\n   Check download completion or data integrity."
    IN  upto[Len(checks)] \o "\n" \o rule \o "\n" \o banner

\* C15: summary() shows every Check, in insertion order, as a status line
\* (glyph, PASS or FAIL, name) followed by its Expected and Actual lines and
\* a Details line only when details is present, and ends with the success
\* banner iff all_passed, otherwise with the failure banner whose count and
\* name list are those of the failed checks, in order.
C15_SummaryListsEveryCheck ==
    IsCall("summary") =>
        call.ret = ExpectedSummary(results[call.args.r])

\* a summary of a passed check and two failed ones, one of them with details
C15_SummaryOfMixedChecks ==
    /\ IsCall("summary")
    /\ Len(results[call.args.r].checks) = 3
    /\ \E i, j, k \in 1..3 :
          /\ results[call.args.r].checks[i].passed
          /\ i # j /\ ~results[call.args.r].checks[j].passed
          /\ results[call.args.r].checks[j].details = None
          /\ ~results[call.args.r].checks[k].passed
          /\ results[call.args.r].checks[k].details # None

\* C13: the validate command prints the rendered report and then exits
\* with a non-zero status iff the Result's all_passed is false (status 0 iff
\* every check passed); the report is printed in both cases.
C13_ReportThenExitStatus ==
    IsCall("validate") =>
        /\ call.ret.result # None
        /\ call.ret.stdout = <<summary(call.ret.result[1])>>
        /\ (call.ret.exit_code # 0) <=>
               (\E i \in DOMAIN call.ret.result[1].checks :
                    ~call.ret.result[1].checks[i].passed)

\* C16: push_dataset_to_hub calls ds.push_to_hub with embed_external_files
\* False whenever the caller does not pass embed_external_files, and with
\* the caller's value when it is passed; the repo id is config.hf_repo_id.
C16_EmbedDefaultsToFalse ==
    IsCall("push_dataset_to_hub") =>
        /\ Len(call.log) = 1
        /\ call.log[1].repo_id = call.args.config.hf_repo_id
        /\ call.log[1].embed_external_files =
               IF "embed_external_files" \in DOMAIN call.args.push_kwargs
               THEN call.args.push_kwargs["embed_external_files"]
               ELSE FALSE

\* C17: validate_file_table_columns raises ValueError iff some key of
\* features is not a column of file_table; columns that are not in features
\* never cause an error, and a call that does not raise returns None and
\* leaves the file table as it was.
C17_RaisesIffFeatureMissing ==
    IsCall("validate_file_table_columns") =>
        LET columns == call.args.file_table.columns
            keys == call.args.features
            lacking == \E k \in DOMAIN keys :
                           \A c \in DOMAIN columns : columns[c] # keys[k]
        IN  /\ call.raised = IF lacking THEN "ValueError" ELSE "none"
            /\ ~lacking => /\ call.ret.ds = None
                           /\ call.ret.file_table = call.args.file_table

\* the three feature columns and an extra one, accepted
C17_ExtraColumnAccepted ==
    /\ IsCall("validate_file_table_columns")
    /\ call.args.features = <<"subject_id", "t1w", "age">>
    /\ call.args.file_table.columns =
           <<"subject_id", "t1w", "age", "extra_column">>
    /\ call.raised = "none"

\* C18: build_hf_dataset validates the columns before any conversion (a
\* table that lacks a feature column raises ValueError and no dataset is
\* created); on success the dataset's column set is exactly the key set of
\* features, every extra column excluded, and the caller's file_table is
\* not modified.
C18_DatasetHasFeatureColumns ==
    IsCall("build_hf_dataset") =>
        LET columns == call.args.file_table.columns
            keys == call.args.features
            lacking == \E k \in DOMAIN keys :
                           \A c \in DOMAIN columns : columns[c] # keys[k]
        IN  /\ call.ret.file_table = call.args.file_table
            /\ call.log[1] = "validate_file_table_columns"
            /\ lacking => /\ call.raised = "ValueError"
                          /\ call.ret.ds = None
                          /\ Len(call.log) = 1
            /\ ~lacking =>
                  /\ call.raised = "none"
                  /\ call.ret.ds # None
                  /\ {call.ret.ds[1].column_names[i] :
                         i \in DOMAIN call.ret.ds[1].column_names}
                       = {keys[k] : k \in DOMAIN keys}
                  /\ Len(call.ret.ds[1].column_names) = Len(keys)

\* a dataset built from a table with an extra column
C18_ExtraColumnExcluded ==
    /\ IsCall("build_hf_dataset")
    /\ call.args.file_table.columns =
           <<"subject_id", "t1w", "age", "extra_column">>
    /\ call.raised = "none"
    /\ call.ret.ds # None
    /\ call.ret.ds[1].column_names = <<"subject_id", "t1w", "age">>

StartsWith(str, prefix) ==
    Len(str) >= Len(prefix) /\ SubSeq(str, 1, Len(prefix)) = prefix

\* C19: for either value of dry_run, build_and_push_arc and
\* build_and_push_soop raise NotImplementedError before any dataset is built
\* or pushed; the arc and soop commands print their "Processing ..." message
\* before that failure, exit non-zero, and never print the "Dry run
\* complete" or the "Dataset pushed" message.
C19_StubsRaiseBeforeBuilding ==
    /\ (IsCall("build_and_push_arc") \/ IsCall("build_and_push_soop")) =>
          /\ call.raised = "NotImplementedError"
          /\ call.ret.ds = None
          /\ call.ret.pushed = <<>>
          /\ \A i \in DOMAIN call.log :
                call.log[i] \notin {"build_hf_dataset", "push_dataset_to_hub"}
    /\ (IsCall("arc") \/ IsCall("soop")) =>
          /\ call.raised = "NotImplementedError"
          /\ call.ret.exit_code # 0
          /\ call.ret.pushed = <<>>
          /\ call.ret.stdout # <<>>
          /\ call.ret.stdout[1] =
                "Processing " \o (IF IsCall("arc") THEN "ARC" ELSE "SOOP")
                \o " dataset from: " \o call.args.bids_root
          /\ \A i \in DOMAIN call.ret.stdout :
                /\ ~StartsWith(call.ret.stdout[i], "Dry run complete")
                /\ ~StartsWith(call.ret.stdout[i], "Dataset pushed")

\* the arc command run with --no-dry-run: three lines echoed, then failure
C19_ArcNoDryRunFails ==
    /\ IsCall("arc")
    /\ ~call.args.dry_run
    /\ call.ret.stdout = <<"Processing ARC dataset from: /data/ds004884",
                           "Target HF repo: myuser/arc-demo",
                           "Dry run: False">>
    /\ call.ret.exit_code = 1

\* C20: the Check returned by validate_bids_required_files always carries
\* the full required-files list in details, both when files are missing and
\* when all are present.
C20_DetailsAlwaysListRequired ==
    IsCall("validate_bids_required_files") =>
        LET required == IF call.args.required_files = None
                        THEN <<"dataset_description.json", "participants.tsv">>
                        ELSE call.args.required_files[1]
        IN  /\ call.raised = "none"
            /\ call.ret.details # None
            /\ \A i \in DOMAIN required :
                  \E at \in 1..Len(call.ret.details[1]) :
                      at + Len(required[i]) - 1 <= Len(call.ret.details[1])
                      /\ SubSeq(call.ret.details[1], at,
                                at + Len(required[i]) - 1) = required[i]

\* C21: a ValidationCheck is immutable once constructed: no operation
\* (assignment to name, passed, expected, actual or details; add_check;
\* reading the result) changes a field of a check a result holds.
C21_ChecksImmutable ==
    [][\A r \in 1..Len(results) :
          \A i \in 1..Len(results[r].checks) :
              /\ r <= Len(results')
              /\ i <= Len(results'[r].checks)
              /\ results'[r].checks[i] = results[r].checks[i]]_vars

\* C22: count_files(root, pattern) returns the number of files, at any
\* depth under root, whose name matches the pattern; a directory whose name
\* matches the pattern is not counted.
C22_CountsFilesOnly ==
    IsCall("count_files") =>
        call.ret = Cardinality(
            {e \in call.args.tree :
                /\ ~e.is_dir
                /\ EndsWith(e.path, SubSeq(call.args.pattern, 2,
                                           Len(call.args.pattern)))})

\* the paths one call opened, in order
OpenedPaths == [i \in DOMAIN Opens(call.log) |-> Opens(call.log)[i].path]

\* C23 as claimed: in one spot_check_nifti_files call the files opened are
\* pairwise distinct members of the matched set, and their number never
\* exceeds min(sample_size, total matches).
C23_OpensBoundedByMin ==
    IsCall("spot_check_nifti_files") =>
        /\ \A i, j \in DOMAIN OpenedPaths :
              i # j => OpenedPaths[i] # OpenedPaths[j]
        /\ \A i \in DOMAIN OpenedPaths :
              \E m \in DOMAIN Matched : OpenedPaths[i] = NiftiPath(Matched[m])
        /\ Len(OpenedPaths) <= Min(call.args.sample_size, Len(Matched))

\* C23 as amended: the files opened are pairwise distinct members of the
\* matched set; their number never exceeds min(sample_size, total matches)
\* when sample_size is not negative, and no file is opened when it is.
C23_OpensBoundedBySample ==
    IsCall("spot_check_nifti_files") =>
        /\ \A i, j \in DOMAIN OpenedPaths :
              i # j => OpenedPaths[i] # OpenedPaths[j]
        /\ \A i \in DOMAIN OpenedPaths :
              \E m \in DOMAIN Matched : OpenedPaths[i] = NiftiPath(Matched[m])
        /\ call.args.sample_size >= 0 =>
              Len(OpenedPaths) <= Min(call.args.sample_size, Len(Matched))
        /\ call.args.sample_size < 0 => OpenedPaths = <<>>

\* two of three matching files opened
C23_TwoOfThreeOpened ==
    /\ IsCall("spot_check_nifti_files")
    /\ call.args.sample_size = 2
    /\ Len(Matched) = 3
    /\ Len(OpenedPaths) = 2

\* C24: reading a Result (summary(), all_passed, failed_checks) is a pure
\* projection: it leaves bids_root, the checks and every field of every
\* Check unchanged and makes no filesystem access, and a reading repeated
\* with no add_check in between returns the same value.
C24_ReadsArePure ==
    [][call'.op \in {"summary", "all_passed", "failed_checks"} =>
          /\ results' = results
          /\ <<root_exists', present', nifti'>> = <<root_exists, present, nifti>>
          /\ call'.log = <<>>
          /\ (call.op = call'.op /\ call.args.r = call'.args.r) =>
                call'.ret = call.ret]_vars

\* all_passed read twice of a result that holds a failed check
C24_ReadTwice ==
    /\ IsCall("all_passed")
    /\ call.args.earlier = Some(FALSE)
    /\ call.ret = FALSE
    /\ Len(results[call.args.r].checks) >= 2

\* C25: Results of separate invocations or constructions share no state:
\* appending a Check to one Result leaves every other Result (its checks,
\* and so its all_passed and failed_checks) as it was, a constructed Result
\* starts with no checks and an invocation's Result holds the checks of
\* that invocation only.
C25_ResultsShareNothing ==
    [][/\ Len(results') >= Len(results)
       /\ \A o \in 1..Len(results) :
             (call'.op # "add_check" \/ o # call'.args.r) =>
                 /\ results'[o] = results[o]
                 /\ all_passed(results'[o]) = all_passed(results[o])
                 /\ failed_checks(results'[o]) = failed_checks(results[o])
       /\ (call'.op = "ValidationResult" /\ Len(results') > Len(results)) =>
             results'[Len(results')].checks = <<>>
       /\ (call'.op = "validate_generic_bids"
              /\ Len(results') > Len(results)) =>
             [i \in DOMAIN results'[Len(results')].checks |->
                 results'[Len(results')].checks[i].name]
               \in {<<"bids_root_exists">>,
                    <<"bids_required_files", "nifti_integrity">>}]_vars

\* a check appended to a constructed Result while an invocation's Result
\* is held
C25_AppendBesideInvocation ==
    /\ IsCall("add_check")
    /\ Len(results) = 2
    /\ call.args.r = 2
    /\ Len(results[1].checks) = 2
    /\ results[1].checks[1].name = "bids_required_files"
    /\ Len(results[2].checks) = 1

\* C26: add_check is append-only: it lengthens checks by exactly one, puts
\* the new Check last and leaves every earlier element in its position; so
\* all_passed, once false, stays false, and failed_checks grows only by
\* extension at its end.
C26_AddCheckAppendsOnly ==
    [][call'.op = "add_check" =>
          LET old == results[call'.args.r].checks
              new == results'[call'.args.r].checks
              failed(cs) == SelectSeq(cs, LAMBDA c : ~c.passed)
          IN  /\ Len(new) = Len(old) + 1
              /\ new[Len(new)] = call'.args.check
              /\ \A i \in DOMAIN old : new[i] = old[i]
              /\ (\E i \in DOMAIN old : ~old[i].passed) =>
                    (\E i \in DOMAIN new : ~new[i].passed)
              /\ Len(failed(new)) >= Len(failed(old))
              /\ SubSeq(failed(new), 1, Len(failed(old))) = failed(old)]_vars

\* a passed check appended after a failed one
C26_PassedAfterFailed ==
    /\ IsCall("add_check")
    /\ call.args.check.passed
    /\ Len(results[call.args.r].checks) = 3
    /\ ~results[call.args.r].checks[1].passed
    /\ results[call.args.r].checks[3] = call.args.check

\* C27: with sample_size = 0 and at least one file matching,
\* spot_check_nifti_files opens no file and returns a passing Check
\* (expected "0/0 loadable", actual "0/0 passed", details "Checked 0 of
\* <total> files"), so validate_generic_bids reports all_passed without any
\* header having been read, whatever the state of the matching files.
C27_ZeroSampleVacuousPass ==
    /\ (IsCall("spot_check_nifti_files") /\ call.args.sample_size = 0
           /\ Len(Matched) >= 1) =>
          /\ call.raised = "none"
          /\ OpenedPaths = <<>>
          /\ call.ret = [name |-> "nifti_integrity", passed |-> TRUE,
                         expected |-> "0/0 loadable", actual |-> "0/0 passed",
                         details |-> Some("Checked 0 of "
                                          \o ToString(Len(Matched))
                                          \o " files")]
    /\ (IsCall("validate_generic_bids") /\ call.args.sample_size = 0
           /\ Len(Matched) >= 1
           /\ {"dataset_description.json", "participants.tsv"}
                 \subseteq present) =>
          /\ call.raised = "none"
          /\ OpenedPaths = <<>>
          /\ \A i \in DOMAIN call.ret.checks : call.ret.checks[i].passed

\* a Result that passed over matching files that are all corrupt
C27_AllCorruptYetPassed ==
    /\ IsCall("validate_generic_bids")
    /\ call.args.sample_size = 0
    /\ Len(Matched) >= 2
    /\ \A m \in DOMAIN Matched : nifti[Matched[m]] = "corrupt"
    /\ call.raised = "none"
    /\ \A i \in DOMAIN call.ret.checks : call.ret.checks[i].passed

\* C28: with a negative sample_size and at least one matching file the
\* sampling step raises ValueError outside the error-containing block: the
\* exception leaves spot_check_nifti_files and validate_generic_bids and no
\* Check or Result is returned; with no match the same sample_size raises
\* nothing and yields the "no files found" Check.
C28_NegativeSampleRaises ==
    /\ (IsCall("spot_check_nifti_files") /\ call.args.sample_size < 0) =>
          IF Len(Matched) >= 1
          THEN /\ call.raised = "ValueError"
               /\ call.ret = None
               /\ OpenedPaths = <<>>
          ELSE /\ call.raised = "none"
               /\ ~call.ret.passed
               /\ call.ret.actual = "no files found"
    /\ (IsCall("validate_generic_bids") /\ call.args.sample_size < 0
           /\ root_exists /\ call.args.bids_root = BidsRoot) =>
          IF Len(Matched) >= 1
          THEN /\ call.raised = "ValueError"
               /\ call.ret = None
               /\ OpenedPaths = <<>>
          ELSE /\ call.raised = "none"
               /\ Len(call.ret.checks) = 2
               /\ call.ret.checks[2].actual = "no files found"

\* the exception leaving validate_generic_bids over readable files
C28_RaisedOverReadableFiles ==
    /\ IsCall("validate_generic_bids")
    /\ call.args.sample_size < 0
    /\ Len(Matched) >= 2
    /\ \A m \in DOMAIN Matched : nifti[Matched[m]] = "ok"
    /\ call.raised = "ValueError"

\* every run the call could have been, on the filesystem it ran against
Runs ==
    { spot_check_nifti_files(call.args.bids_root, call.args.pattern,
                             call.args.sample_size, rnd) :
        rnd \in Draws(call.args.bids_root, call.args.pattern,
                      call.args.sample_size) }

Verdict(run) ==
    IF run.raised # "none" THEN "raised"
    ELSE IF run.ret.passed THEN "passed" ELSE "failed"

Loadable == {m \in DOMAIN Matched : nifti[Matched[m]] = "ok"}

\* C29 as claimed: the verdict of spot_check_nifti_files is independent of
\* the draw whenever sample_size >= total matches (it then passes iff every
\* matching file loads) or all matching files are loadable or all are
\* unreadable; two runs on one filesystem state differ in their verdict only
\* when 1 <= sample_size < total and the matched set mixes loadable and
\* unreadable files with at least sample_size loadable ones.  The number of
\* files sampled, min(sample_size, total), is the same in every run.
C29_VerdictIndependentOfDraw ==
    IsCall("spot_check_nifti_files") =>
        LET total == Len(Matched)
            k == call.args.sample_size
            same == \A run \in Runs : Verdict(run) = Verdict(call)
        IN  /\ (k >= total \/ Cardinality(Loadable) \in {0, total}) => same
            /\ k >= total =>
                  (Verdict(call) = "passed" <=> Cardinality(Loadable) = total)
            /\ ~same => /\ 1 <= k /\ k < total
                        /\ Cardinality(Loadable) \notin {0, total}
                        /\ Cardinality(Loadable) >= k
            /\ \A run \in Runs : Len(run.sample) = Min(k, total)

\* C29 as amended: the same, with sample_size >= total the call passing iff
\* at least one file matches and every matching file loads, and the number
\* of files sampled being min(sample_size, total) for a sample_size that is
\* not negative and 0 for a negative one.
C29_VerdictIndependentUnlessMixed ==
    IsCall("spot_check_nifti_files") =>
        LET total == Len(Matched)
            k == call.args.sample_size
            same == \A run \in Runs : Verdict(run) = Verdict(call)
        IN  /\ (k >= total \/ Cardinality(Loadable) \in {0, total}) => same
            /\ k >= total =>
                  (Verdict(call) = "passed" <=>
                      (total >= 1 /\ Cardinality(Loadable) = total))
            /\ ~same => /\ 1 <= k /\ k < total
                        /\ Cardinality(Loadable) \notin {0, total}
                        /\ Cardinality(Loadable) >= k
            /\ \A run \in Runs :
                  Len(run.sample) = IF k >= 0 THEN Min(k, total) ELSE 0

\* a run that passed where another draw would have failed
C29_PassedByLuck ==
    /\ IsCall("spot_check_nifti_files")
    /\ call.args.sample_size = 2
    /\ Len(Matched) = 3
    /\ Cardinality(Loadable) = 2
    /\ Verdict(call) = "passed"
    /\ \E run \in Runs : Verdict(run) = "failed"

\* the Result of the call, of the orchestrator or of the validate command
ResultOfCall == IF IsCall("validate") THEN call.ret.result[1] ELSE call.ret

\* C30: validate_generic_bids always checks the two default required names:
\* no argument of it or of the validate command changes the required-files
\* list, and the pattern and the sample size affect the "nifti_integrity"
\* Check only, never the "bids_required_files" Check: every field of that
\* Check is a function of which of the two default names exist.
C30_RequiredListIsFixed ==
    ((IsCall("validate_generic_bids") \/ IsCall("validate"))
        /\ Exists(call.args.bids_root) /\ call.raised = "none") =>
        LET first == ResultOfCall.checks[1]
            missing == SelectSeq(
                <<"dataset_description.json", "participants.tsv">>,
                LAMBDA name : name \notin present)
            asked == SelectSeq(call.log, LAMBDA e : e.op = "exists")
        IN  /\ first.name = "bids_required_files"
            /\ first.passed = (missing = <<>>)
            /\ first.actual = IF missing = <<>> THEN "all present"
                              ELSE "missing: " \o Listing(missing)
            /\ [i \in DOMAIN asked |-> asked[i].path]
                 = <<call.args.bids_root,
                     call.args.bids_root \o "/dataset_description.json",
                     call.args.bids_root \o "/participants.tsv">>
            /\ first.expected = "all present"
            /\ first.details =
                  IF missing = <<>> THEN None
                  ELSE Some("Required: ['dataset_description.json', "
                            \o "'participants.tsv']")

\* the validate command run with a pattern that matches nothing and a
\* sample size of 0, one default name missing
C30_OneDefaultNameMissing ==
    /\ IsCall("validate")
    /\ call.args.pattern = "**/*_nonexistent.nii.gz"
    /\ call.args.sample_size = 0
    /\ "README" \in present
    /\ call.raised = "none"
    /\ call.ret.result[1].checks[1].actual = "missing: dataset_description.json"

====
